---- MODULE Spec2Model ----
(***************************************************************************)
(* A model of template.py, the toy template engine: tokenize, parse and    *)
(* eval_, the two block matchers find_next_else / find_next_endif, the     *)
(* statement handlers and the Template class.                              *)
(*                                                                         *)
(* Python values are tagged records [t, v]:                                *)
(*   str   -> v is the sequence of its characters,                         *)
(*   int   -> v is the integer,      bool -> v is a BOOLEAN,               *)
(*   float -> v is the integer the float equals (only integral floats      *)
(*            arise: math.pow of two non-negative integers),               *)
(*   list / tuple -> v is the sequence of the elements,                    *)
(*   none  -> v is 0.                                                      *)
(* A call's outcome is a record [exc, val]: exc is "" when the call        *)
(* returned val, and the name of the Python exception when it raised.      *)
(* Python indices are kept 0-based; s[i] of Python is s[i+1] here.         *)
(*                                                                         *)
(* Three specifications share the variables:                               *)
(*   Spec      - a Template object is rendered again and again,            *)
(*   SpecParse - parse (turn by turn) and the two matchers on token lists, *)
(*   SpecEval  - eval_ and the for handler (step by step) on parsed        *)
(*               templates.                                                *)
(***************************************************************************)
EXTENDS Integers, Sequences, FiniteSets, TLC

VARIABLES
    template,         \* Template.template: the text read from the file
    parsed_template,  \* Template.parsed_template: None or the cached AST
    tokenized,        \* render's local: the outcome of the last tokenize call
    data_model,       \* the caller's dict, mutated in place by the for handler
    out,              \* the outcome [exc, val] of the last call
    n_tokenize,       \* how often render has called tokenize
    n_parse,          \* how often render has called parse
    n_render,         \* how often render has been called
    tokens,           \* parse's argument: the list of tokens
    index,            \* parse's cursor (0-based), or a matcher's start index
    parsed,           \* parse's accumulator
    pc,               \* where the current call stands
    frame,            \* the locals of the for handler while it runs
    call              \* the current (or last) call: its name, its arguments,
                      \* the data model it was given, how it ended

vars == <<template, parsed_template, tokenized, data_model, out, n_tokenize,
          n_parse, n_render, tokens, index, parsed, pc, frame, call>>

-----------------------------------------------------------------------------
(* Python values and outcomes *)

PStr(s)   == [t |-> "str",   v |-> s]
PInt(n)   == [t |-> "int",   v |-> n]
PBool(b)  == [t |-> "bool",  v |-> b]
PFloat(n) == [t |-> "float", v |-> n]
PList(l)  == [t |-> "list",  v |-> l]
PTuple(l) == [t |-> "tuple", v |-> l]
PNone     == [t |-> "none",  v |-> 0]

Ret(v)    == [exc |-> "", val |-> v]
Raise(e)  == [exc |-> e,  val |-> PNone]

-----------------------------------------------------------------------------
(* Strings: sequences of one-character strings *)

EXPRESSION_START == <<"{", "{">>
EXPRESSION_END   == <<"}", "}">>
STATEMENT_START  == <<"{", "%">>
STATEMENT_END    == <<"%", "}">>

\* str.split() splits on these; "." of the regular expression stops at "\n"
Whitespace == {" ", "\n", "\t"}
Digits     == <<"0", "1", "2", "3", "4", "5", "6", "7", "8", "9">>
UpperCase  == <<"A","B","C","D","E","F","G","H","I","J","K","L","M",
                "N","O","P","Q","R","S","T","U","V","W","X","Y","Z">>
LowerCase  == <<"a","b","c","d","e","f","g","h","i","j","k","l","m",
                "n","o","p","q","r","s","t","u","v","w","x","y","z">>

\* s[a:b] for 0 <= a, b (Python clamps the bounds to the length)
Cut(s, a, b) ==
    LET hi == IF b > Len(s) THEN Len(s) ELSE b
    IN  IF a >= hi THEN <<>> ELSE SubSeq(s, a + 1, hi)

\* s[a:b] with Python's negative indices (counted from the end)
Slice(s, a, b) ==
    LET norm(k) == IF k < 0 THEN (IF Len(s) + k < 0 THEN 0 ELSE Len(s) + k) ELSE k
    IN  Cut(s, norm(a), norm(b))

\* s.startswith(p)
StartsWith(s, p) == Len(s) >= Len(p) /\ SubSeq(s, 1, Len(p)) = p

\* s[i:].startswith(p), i 0-based
HasAt(s, i, p) == i + Len(p) <= Len(s) /\ SubSeq(s, i + 1, i + Len(p)) = p

RECURSIVE Concat(_)
\* "".join(l) for a sequence of strings
Concat(l) == IF l = <<>> THEN <<>> ELSE Head(l) \o Concat(Tail(l))

RECURSIVE JoinWith(_, _)
\* sep.join(l)
JoinWith(sep, l) ==
    IF l = <<>> THEN <<>>
    ELSE IF Len(l) = 1 THEN Head(l)
    ELSE Head(l) \o sep \o JoinWith(sep, Tail(l))

RECURSIVE SplitFrom(_, _, _)
\* the words of s from position i (1-based) on, cur being the word under way
SplitFrom(s, i, cur) ==
    IF i > Len(s) THEN (IF cur = <<>> THEN <<>> ELSE <<cur>>)
    ELSE IF s[i] \in Whitespace
         THEN (IF cur = <<>> THEN <<>> ELSE <<cur>>) \o SplitFrom(s, i + 1, <<>>)
         ELSE SplitFrom(s, i + 1, Append(cur, s[i]))

\* s.split(): the maximal runs of non-whitespace characters
Split(s) == SplitFrom(s, 1, <<>>)

LowerChar(c) ==
    IF \E k \in 1..26 : UpperCase[k] = c
    THEN LowerCase[CHOOSE k \in 1..26 : UpperCase[k] = c]
    ELSE c

\* s.lower()
Lower(s) == [k \in 1..Len(s) |-> LowerChar(s[k])]

DigitValue(c) == (CHOOSE k \in 1..10 : Digits[k] = c) - 1

\* s.isdigit(): not empty and digits only
IsDigit(s) == Len(s) > 0 /\ \A k \in 1..Len(s) : \E d \in 1..10 : Digits[d] = s[k]

RECURSIVE DigitsToInt(_, _)
DigitsToInt(s, acc) ==
    IF s = <<>> THEN acc ELSE DigitsToInt(Tail(s), 10 * acc + DigitValue(Head(s)))

\* int(s) for a string of digits
ToInt(s) == DigitsToInt(s, 0)

RECURSIVE NatToStr(_)
NatToStr(n) ==
    IF n < 10 THEN <<Digits[n + 1]>> ELSE NatToStr(n \div 10) \o <<Digits[(n % 10) + 1]>>

\* str(n) for an int
IntToStr(n) == IF n < 0 THEN <<"-">> \o NatToStr(0 - n) ELSE NatToStr(n)

-----------------------------------------------------------------------------
(* tokenize: TOKEN_REGEX.split, then the empty strings dropped *)

RECURSIVE FindCloser(_, _, _)
\* The least j >= i (0-based) with s[j:] starting with closer and no "\n" in
\* s[i:j], or -1: what the non-greedy ".*?" followed by the closer matches.
FindCloser(s, i, closer) ==
    IF i + Len(closer) > Len(s) THEN -1
    ELSE IF HasAt(s, i, closer) THEN i
    ELSE IF s[i + 1] = "\n" THEN -1
    ELSE FindCloser(s, i + 1, closer)

\* The end (exclusive, 0-based) of TOKEN_REGEX's match starting at i, or -1.
\* The two alternatives start with different text, so at most one applies.
MatchAt(s, i) ==
    LET closer == IF HasAt(s, i, EXPRESSION_START) THEN EXPRESSION_END
                  ELSE STATEMENT_END
        j == FindCloser(s, i + 2, closer)
    IN  IF ~(HasAt(s, i, EXPRESSION_START) \/ HasAt(s, i, STATEMENT_START)) THEN -1
        ELSE IF j = -1 THEN -1
        ELSE j + 2

\* With(x, F) is F(x): the value x, worked out once, under a name of its own
With(x, F(_)) == F(x)

RECURSIVE NextMatch(_, _)
\* The least i >= pos at which TOKEN_REGEX matches, or -1
NextMatch(s, pos) ==
    IF pos >= Len(s) THEN -1
    ELSE IF MatchAt(s, pos) # -1 THEN pos
    ELSE NextMatch(s, pos + 1)

RECURSIVE RegexSplit(_, _)
\* TOKEN_REGEX.split(s) from pos on: text, match, text, ..., match, text
RegexSplit(s, pos) ==
    With(NextMatch(s, pos), LAMBDA i :
    IF i = -1 THEN <<Cut(s, pos, Len(s))>>
    ELSE With(MatchAt(s, i), LAMBDA j :
         <<Cut(s, pos, i), Cut(s, i, j)>> \o RegexSplit(s, j)))

\* [token for token in tokens if token]
DropEmpty(l) == SelectSeq(l, LAMBDA tok : tok # <<>>)

\* text holds an opening delimiter with no closing delimiter of its kind after it
Unterminated(text) ==
    \E i \in 0..(Len(text) - 2) :
       \/ /\ HasAt(text, i, EXPRESSION_START)
          /\ ~\E j \in (i + 2)..(Len(text) - 2) : HasAt(text, j, EXPRESSION_END)
       \/ /\ HasAt(text, i, STATEMENT_START)
          /\ ~\E j \in (i + 2)..(Len(text) - 2) : HasAt(text, j, STATEMENT_END)

\* A tokenize that refuses an unterminated opening delimiter
tokenize_LexError(text) ==
    IF Unterminated(text) THEN Raise("LexError")
    ELSE IF Len(text) = 0 THEN Ret(<<>>)
    ELSE Ret(DropEmpty(RegexSplit(text, 0)))

tokenize(text) ==
    IF Len(text) = 0 THEN Ret(<<>>)
    ELSE Ret(DropEmpty(RegexSplit(text, 0)))

-----------------------------------------------------------------------------
(* The block matchers *)

W_if     == <<"i", "f">>
W_else   == <<"e", "l", "s", "e">>
W_endif  == <<"e", "n", "d", "i", "f">>
W_for    == <<"f", "o", "r">>
W_endfor == <<"e", "n", "d", "f", "o", "r">>
W_in     == <<"i", "n">>

is_expr(token) == StartsWith(token, EXPRESSION_START)

\* is_stmt(token, type_): type_ is PNone or PStr(name). The outcome's val is a
\* BOOLEAN; token.split()[1] raises IndexError on a marker of fewer than two words.
is_stmt(token, type_) ==
    IF StartsWith(token, STATEMENT_START)
    THEN IF type_ = PNone THEN [exc |-> "", val |-> TRUE]
         ELSE IF Len(Split(token)) < 2 THEN [exc |-> "IndexError", val |-> FALSE]
         ELSE [exc |-> "", val |-> Lower(Split(token)[2]) = Lower(type_.v)]
    ELSE [exc |-> "", val |-> FALSE]

RECURSIVE ElseScan(_, _, _)
\* find_next_else's loop from position pos (0-based) on, with open_ifs as it
\* stands before tokens[pos] is looked at
ElseScan(toks, pos, open_ifs) ==
    IF pos >= Len(toks) THEN Ret(PInt(-1))
    ELSE With(is_stmt(toks[pos + 1], PStr(W_if)), LAMBDA isIf :
         IF isIf.exc # "" THEN Raise(isIf.exc)
         ELSE With((IF isIf.val THEN open_ifs + 1 ELSE open_ifs)
                   - (IF is_stmt(toks[pos + 1], PStr(W_endif)).val THEN 1 ELSE 0),
                   LAMBDA o :
              IF o <= 0 /\ is_stmt(toks[pos + 1], PStr(W_else)).val THEN Ret(PInt(pos))
              ELSE ElseScan(toks, pos + 1, o)))

\* find_next_else(tokens, index), for the index >= 0 its callers pass
find_next_else(toks, ix) == ElseScan(toks, ix, 0)

RECURSIVE EndifScan_NoContinue(_, _, _)
\* A find_next_endif loop without the "continue" of an endif that closes a
\* nested if
EndifScan_NoContinue(toks, pos, open_ifs) ==
    IF pos >= Len(toks) THEN Ret(PInt(-1))
    ELSE With(is_stmt(toks[pos + 1], PStr(W_if)), LAMBDA isIf :
         IF isIf.exc # "" THEN Raise(isIf.exc)
         ELSE IF isIf.val THEN EndifScan_NoContinue(toks, pos + 1, open_ifs + 1)
         ELSE IF ~is_stmt(toks[pos + 1], PStr(W_endif)).val
              THEN EndifScan_NoContinue(toks, pos + 1, open_ifs)
         ELSE IF open_ifs - 1 <= 0 THEN Ret(PInt(pos))
         ELSE EndifScan_NoContinue(toks, pos + 1, open_ifs - 1))

RECURSIVE EndifScan(_, _, _)
\* find_next_endif's loop from position pos (0-based) on
EndifScan(toks, pos, open_ifs) ==
    IF pos >= Len(toks) THEN Ret(PInt(-1))
    ELSE With(is_stmt(toks[pos + 1], PStr(W_if)), LAMBDA isIf :
         IF isIf.exc # "" THEN Raise(isIf.exc)
         ELSE IF isIf.val THEN EndifScan(toks, pos + 1, open_ifs + 1)
         ELSE IF ~is_stmt(toks[pos + 1], PStr(W_endif)).val
              THEN EndifScan(toks, pos + 1, open_ifs)
         ELSE IF open_ifs - 1 = 0 THEN EndifScan(toks, pos + 1, open_ifs - 1)   \* continue
         ELSE IF open_ifs - 1 <= 0 THEN Ret(PInt(pos))
         ELSE EndifScan(toks, pos + 1, open_ifs - 1))

\* find_next_endif(tokens, index), for the index >= 0 its callers pass
find_next_endif(toks, ix) == EndifScan(toks, ix, 0)

-----------------------------------------------------------------------------
(* parse *)

\* l.index(x), 0-based; -1 stands for the ValueError of an absent x
ListIndex(l, x) ==
    IF \E k \in 1..Len(l) : l[k] = x
    THEN (CHOOSE k \in 1..Len(l) : l[k] = x /\ \A j \in 1..(k - 1) : l[j] # x) - 1
    ELSE -1

make_int(token) == IF IsDigit(token) THEN PInt(ToInt(token)) ELSE PStr(token)

parse_expr(token) ==
    LET subtokens == Split(token)
    IN  PTuple([k \in 1..Len(subtokens) |-> make_int(subtokens[k])])

unpack_len_one_list(l) ==
    IF l.t = "list"
    THEN IF Len(l.v) = 1 THEN l.v[1]
         ELSE IF Len(l.v) = 0 THEN PStr(<<>>)
         ELSE l
    ELSE l

\* A parse outcome that never returns: the cursor was set back, so the same
\* tokens are parsed again and again while the accumulator grows.
NoReturn == "NoReturn"

RECURSIVE parse(_)
RECURSIVE parse_stmt(_, _, _)
RECURSIVE ParseLoop(_, _, _)

ParseFail(e, ix) == [exc |-> e, index |-> ix, node |-> PNone]

\* The if branch of parse_stmt; params are the marker's words after "if"
ParseIf(params, toks, ix) ==
    With(parse(<<EXPRESSION_START \o JoinWith(<<" ">>, params) \o EXPRESSION_END>>), LAMBDA cond :
    IF cond.exc # "" THEN ParseFail(cond.exc, ix)
    ELSE IF ListIndex(Cut(toks, ix, Len(toks)),
                      STATEMENT_START \o <<" ">> \o W_else \o <<" ">> \o STATEMENT_END) = -1
    THEN ParseFail("ValueError", ix)
    ELSE
    With(find_next_else(toks, ix + 1), LAMBDA next_else :
    IF next_else.exc # "" THEN ParseFail(next_else.exc, ix)
    ELSE
    With(parse(Slice(toks, ix + 1, next_else.val.v)), LAMBDA conseq :
    IF conseq.exc # "" THEN ParseFail(conseq.exc, ix)
    ELSE IF ListIndex(Cut(toks, ix, Len(toks)),
                      STATEMENT_START \o <<" ">> \o W_endif \o <<" ">> \o STATEMENT_END) = -1
    THEN ParseFail("ValueError", ix)
    ELSE
    With(find_next_endif(toks, ix + 1), LAMBDA next_endif :
    IF next_endif.exc # "" THEN ParseFail(next_endif.exc, ix)
    ELSE
    With(parse(Slice(toks, next_else.val.v + 1, next_endif.val.v)), LAMBDA alt :
    IF alt.exc # "" THEN ParseFail(alt.exc, ix)
    ELSE [exc |-> "", index |-> next_endif.val.v,
          node |-> PTuple(<<PStr(W_if), unpack_len_one_list(cond.val),
                            unpack_len_one_list(conseq.val),
                            unpack_len_one_list(alt.val)>>)])))))

\* A for branch of parse_stmt that refuses a clause other than "<name> in <name>"
ParseFor_Checked(params, toks, ix) ==
    IF Len(params) # 3 \/ params[2] # W_in THEN ParseFail("ParseError", ix)
    ELSE
    With(ListIndex(Cut(toks, ix, Len(toks)),
                   STATEMENT_START \o <<" ">> \o W_endfor \o <<" ">> \o STATEMENT_END),
         LAMBDA next_endfor :
    IF next_endfor = -1 THEN ParseFail("ValueError", ix)
    ELSE
    With(parse(Slice(toks, ix + 1, ix + next_endfor)), LAMBDA conseq :
    IF conseq.exc # "" THEN ParseFail(conseq.exc, ix)
    ELSE [exc |-> "", index |-> ix + next_endfor,
          node |-> PTuple(<<PStr(W_for),
                            PList([k \in 1..Len(params) |-> PStr(params[k])]),
                            unpack_len_one_list(conseq.val)>>)]))

\* The for branch of parse_stmt; params are the marker's words after "for"
ParseFor(params, toks, ix) ==
    With(ListIndex(Cut(toks, ix, Len(toks)),
                   STATEMENT_START \o <<" ">> \o W_endfor \o <<" ">> \o STATEMENT_END),
         LAMBDA next_endfor :
    IF next_endfor = -1 THEN ParseFail("ValueError", ix)
    ELSE
    With(parse(Slice(toks, ix + 1, ix + next_endfor)), LAMBDA conseq :
    IF conseq.exc # "" THEN ParseFail(conseq.exc, ix)
    ELSE [exc |-> "", index |-> ix + next_endfor,
          node |-> PTuple(<<PStr(W_for),
                            PList([k \in 1..Len(params) |-> PStr(params[k])]),
                            unpack_len_one_list(conseq.val)>>)]))

\* parse_stmt(token, tokens, index): the outcome carries the new index and the node
parse_stmt(token, toks, ix) ==
    With(Split(token), LAMBDA subtokens :
    IF subtokens = <<>> THEN ParseFail("IndexError", ix)
    ELSE IF Head(subtokens) = W_if THEN ParseIf(Tail(subtokens), toks, ix)
    ELSE IF Head(subtokens) = W_for THEN ParseFor(Tail(subtokens), toks, ix)
    ELSE [exc |-> "", index |-> ix,
          node |-> PTuple(<<PStr(Head(subtokens)),
                            PTuple([k \in 1..(Len(subtokens) - 1) |-> PStr(subtokens[k + 1])])>>)])

\* One turn of parse's while loop at cursor ix: the node appended and the
\* cursor after "index += 1"
ParseToken(toks, ix) ==
    With(toks[ix + 1], LAMBDA token :
    IF is_expr(token)
    THEN [exc |-> "", index |-> ix + 1,
          node |-> parse_expr(Slice(token, Len(EXPRESSION_START), 0 - Len(EXPRESSION_END)))]
    ELSE IF is_stmt(token, PNone).val
    THEN With(parse_stmt(Slice(token, Len(STATEMENT_START), 0 - Len(STATEMENT_END)), toks, ix),
              LAMBDA st : [exc |-> st.exc, index |-> st.index + 1, node |-> st.node])
    ELSE [exc |-> "", index |-> ix + 1, node |-> PStr(token)])

\* parse's while loop from cursor ix on. A cursor that does not advance never
\* will: parse is deterministic, so the loop runs for ever.
ParseLoop(toks, ix, acc) ==
    IF ix >= Len(toks) THEN Ret(PList(acc))
    ELSE With(ParseToken(toks, ix), LAMBDA step :
         IF step.exc # "" THEN Raise(step.exc)
         ELSE IF step.index <= ix THEN Raise(NoReturn)
         ELSE ParseLoop(toks, step.index, Append(acc, step.node)))

parse(toks) == IF Len(toks) = 0 THEN Ret(PList(<<>>)) ELSE ParseLoop(toks, 0, <<>>)

-----------------------------------------------------------------------------
(* Python's built-in behaviour that the evaluator relies on *)

\* The outcome of an evaluation: exc and val as above, dm the data model as
\* the call leaves it (the for handler changes the caller's dict in place).
ERet(v, dm)   == [exc |-> "", val |-> v, dm |-> dm]
ERaise(e, dm) == [exc |-> e, val |-> PNone, dm |-> dm]

\* An operand pair whose Python result this model does not work out (string
\* ordering, "%" formatting, fractional powers): no input reaches one.
Unmodelled == "Unmodelled"

IsNum(x) == x.t \in {"int", "bool", "float"}
Num(x)   == IF x.t = "bool" THEN (IF x.v THEN 1 ELSE 0) ELSE x.v
\* the type of an arithmetic result
NumRes(x, y, n) == IF x.t = "float" \/ y.t = "float" THEN PFloat(n) ELSE PInt(n)

RECURSIVE Hashable(_)
\* hash(x) raises TypeError for a list and for a tuple that holds one
Hashable(x) ==
    IF x.t = "list" THEN FALSE
    ELSE IF x.t = "tuple" THEN \A k \in 1..Len(x.v) : Hashable(x.v[k])
    ELSE TRUE

RECURSIVE PyEq(_, _)
\* x == y
PyEq(x, y) ==
    IF IsNum(x) /\ IsNum(y) THEN Num(x) = Num(y)
    ELSE IF x.t # y.t THEN FALSE
    ELSE IF x.t \in {"list", "tuple"}
         THEN Len(x.v) = Len(y.v) /\ \A k \in 1..Len(x.v) : PyEq(x.v[k], y.v[k])
    ELSE x.v = y.v

\* bool(x)
Truthy(x) ==
    IF x.t = "bool" THEN x.v
    ELSE IF x.t \in {"int", "float"} THEN x.v # 0
    ELSE IF x.t = "none" THEN FALSE
    ELSE Len(x.v) > 0

\* repr of one character inside quote q
ReprChar(c, q) ==
    IF c = "\n" THEN <<"\\", "n">>
    ELSE IF c = "\t" THEN <<"\\", "t">>
    ELSE IF c = "\\" THEN <<"\\", "\\">>
    ELSE IF c = q THEN <<"\\", c>>
    ELSE <<c>>

\* repr(s) of a str: single quotes unless s holds a ' and no "
ReprStr(s) ==
    LET has(c) == \E k \in 1..Len(s) : s[k] = c
        q == IF has("'") /\ ~has("\"") THEN "\"" ELSE "'"
    IN  <<q>> \o Concat([k \in 1..Len(s) |-> ReprChar(s[k], q)]) \o <<q>>

RECURSIVE Repr(_)
\* repr(x); str(x) is the same but for a str
Repr(x) ==
    IF x.t = "str" THEN ReprStr(x.v)
    ELSE IF x.t = "int" THEN IntToStr(x.v)
    ELSE IF x.t = "float" THEN IntToStr(x.v) \o <<".", "0">>
    ELSE IF x.t = "bool" THEN (IF x.v THEN <<"T","r","u","e">> ELSE <<"F","a","l","s","e">>)
    ELSE IF x.t = "none" THEN <<"N","o","n","e">>
    ELSE IF x.t = "list"
         THEN <<"[">> \o JoinWith(<<",", " ">>, [k \in 1..Len(x.v) |-> Repr(x.v[k])]) \o <<"]">>
    ELSE IF Len(x.v) = 1 THEN <<"(">> \o Repr(x.v[1]) \o <<",", ")">>
    ELSE <<"(">> \o JoinWith(<<",", " ">>, [k \in 1..Len(x.v) |-> Repr(x.v[k])]) \o <<")">>

\* str(x)
PyStr(x) == IF x.t = "str" THEN x.v ELSE Repr(x)

\* What "for elem in x" walks over, for an iterable x
Elements(x) ==
    IF x.t = "str" THEN [k \in 1..Len(x.v) |-> PStr(<<x.v[k]>>)] ELSE x.v

\* iter(x) raises TypeError for these
Iterable(x) == x.t \in {"str", "list", "tuple"}

\* x % y of Python for integers: the result has the sign of y
PyMod(x, y) ==
    IF y > 0 THEN x % y
    ELSE LET r == (0 - x) % (0 - y) IN 0 - r

RECURSIVE Power(_, _)
Power(x, n) == IF n = 0 THEN 1 ELSE x * Power(x, n - 1)

RECURSIVE Repeat(_, _)
\* s * n for a sequence s
Repeat(sq, n) == IF n <= 0 THEN <<>> ELSE sq \o Repeat(sq, n - 1)

\* needle in hay, for two strings
IsSubstring(needle, hay) ==
    \E k \in 0..Len(hay) : HasAt(hay, k, needle)

-----------------------------------------------------------------------------
(* _GLOBAL_ENV *)

\* The keys of _GLOBAL_ENV['operators']['binary'] and ['unary']
BinaryOperators == {<<"+">>, <<"-">>, <<"*">>, <<"/">>, <<">">>, <<"<">>, <<">", "=">>,
                    <<"<", "=">>, <<"=", "=">>, <<"!", "=">>, <<"^">>, <<"i", "n">>}
UnaryOperators  == {<<"-">>}

W_len     == <<"l", "e", "n">>
W_extends == <<"e", "x", "t", "e", "n", "d", "s">>
\* The keys of _GLOBAL_ENV['statements'] once the module is loaded
Statements == {W_len, W_if, W_for, W_extends}

\* _GLOBAL_ENV['operators']['binary'][op](x, y): [exc, val]. "/" is the
\* second of the two entries of that key, the modulo.
ApplyBinary(op, x, y) ==
    LET num == IsNum(x) /\ IsNum(y)
        same(t) == x.t = t /\ y.t = t
        seq(z) == z.t \in {"str", "list", "tuple"}
    IN  CASE op = <<"+">> ->
               IF num THEN Ret(NumRes(x, y, Num(x) + Num(y)))
               ELSE IF same("str") \/ same("list") \/ same("tuple")
                    THEN Ret([t |-> x.t, v |-> x.v \o y.v])
               ELSE Raise("TypeError")
          [] op = <<"-">> ->
               IF num THEN Ret(NumRes(x, y, Num(x) - Num(y))) ELSE Raise("TypeError")
          [] op = <<"*">> ->
               IF num THEN Ret(NumRes(x, y, Num(x) * Num(y)))
               ELSE IF seq(x) /\ y.t \in {"int", "bool"}
                    THEN Ret([t |-> x.t, v |-> Repeat(x.v, Num(y))])
               ELSE IF seq(y) /\ x.t \in {"int", "bool"}
                    THEN Ret([t |-> y.t, v |-> Repeat(y.v, Num(x))])
               ELSE Raise("TypeError")
          [] op = <<"/">> ->
               IF num THEN (IF Num(y) = 0 THEN Raise("ZeroDivisionError")
                            ELSE Ret(NumRes(x, y, PyMod(Num(x), Num(y)))))
               ELSE IF x.t = "str" THEN Raise(Unmodelled)
               ELSE Raise("TypeError")
          [] op \in {<<">">>, <<"<">>, <<">", "=">>, <<"<", "=">>} ->
               IF num THEN Ret(PBool(CASE op = <<">">> -> Num(x) > Num(y)
                                       [] op = <<"<">> -> Num(x) < Num(y)
                                       [] op = <<">", "=">> -> Num(x) >= Num(y)
                                       [] OTHER -> Num(x) <= Num(y)))
               ELSE IF same("str") \/ same("list") \/ same("tuple") THEN Raise(Unmodelled)
               ELSE Raise("TypeError")
          [] op = <<"=", "=">> -> Ret(PBool(PyEq(x, y)))
          [] op = <<"!", "=">> -> Ret(PBool(~PyEq(x, y)))
          [] op = <<"^">> ->
               IF num THEN (IF Num(y) >= 0 THEN Ret(PFloat(Power(Num(x), Num(y))))
                            ELSE Raise(Unmodelled))
               ELSE Raise("TypeError")
          [] op = <<"i", "n">> ->
               IF y.t = "str" THEN (IF x.t = "str" THEN Ret(PBool(IsSubstring(x.v, y.v)))
                                    ELSE Raise("TypeError"))
               ELSE IF y.t \in {"list", "tuple"}
                    THEN Ret(PBool(\E k \in 1..Len(y.v) : PyEq(x, y.v[k])))
               ELSE Raise("TypeError")

-----------------------------------------------------------------------------
(* eval *)

\* data_model[key] = value
DictSet(dm, key, value) ==
    [k \in (DOMAIN dm) \cup {key} |-> IF k = key THEN value ELSE dm[k]]

\* del data_model[key], for a key that is present
DictDel(dm, key) == [k \in (DOMAIN dm) \ {key} |-> dm[k]]

\* data_model[elem] if elem in data_model else elem
Lookup(elem, dm) == IF elem \in DOMAIN dm THEN dm[elem] ELSE elem

is_parsed_token_a_statement(parsed_token) ==
    parsed_token.v[1].t = "str" /\ parsed_token.v[1].v \in Statements

\* The tail of eval_expression, sub being the expression after the lookups
ApplyOperator(sub) ==
        IF Len(sub) = 3
        THEN IF ~Hashable(sub[2]) THEN Raise("TypeError")
             ELSE IF sub[2].t # "str" \/ sub[2].v \notin BinaryOperators
                  THEN Raise("ValueError")
             ELSE ApplyBinary(sub[2].v, sub[1], sub[3])
        ELSE IF Len(sub) = 2
        THEN IF ~Hashable(sub[1]) THEN Raise("TypeError")
             ELSE IF sub[1].t # "str" \/ sub[1].v \notin UnaryOperators
                  THEN Raise("ValueError")
             \* the operator is taken from the binary table and called with
             \* one argument
             ELSE Raise("TypeError")
        ELSE IF Len(sub) = 0 THEN Raise("IndexError")
        ELSE Ret(sub[1])

eval_expression(exp, dm) ==
    IF ~Iterable(exp) THEN Raise("TypeError")
    ELSE With(Elements(exp), LAMBDA es :
         IF \E k \in 1..Len(es) : ~Hashable(es[k]) THEN Raise("TypeError")
         ELSE ApplyOperator([k \in 1..Len(es) |-> Lookup(es[k], dm)]))

RECURSIVE eval_(_, _)
RECURSIVE ForLoop(_, _, _, _)
RECURSIVE EvalLoop(_, _, _, _)

eval_if_statement(params, dm) ==
    IF Len(params) < 3 THEN ERaise("IndexError", dm)
    ELSE With(eval_expression(params[1], dm), LAMBDA cond :
         IF cond.exc # "" THEN ERaise(cond.exc, dm)
         ELSE IF Truthy(cond.val) THEN eval_(params[2], dm)
         ELSE eval_(params[3], dm))

\* eval_for_statement up to its loop: the clause is checked and the loop
\* variable's old binding remembered. [exc, elem_name, present, old, elems, loop]
ForFail(e) == [exc |-> e, elem_name |-> PNone, present |-> FALSE, old |-> PNone,
               elems |-> <<>>, loop |-> PNone]

ForEnter(params, dm) ==
    IF Len(params) = 0 THEN ForFail("IndexError")
    ELSE IF ~Iterable(params[1]) THEN ForFail("TypeError")
    ELSE With(Elements(params[1]), LAMBDA cl :
         IF Len(cl) # 3 \/ ~PyEq(cl[2], PStr(W_in)) THEN ForFail("ValueError")
         ELSE IF Len(params) < 2 THEN ForFail("IndexError")
         ELSE IF ~Hashable(cl[1]) THEN ForFail("TypeError")
         ELSE IF ~Hashable(cl[3]) THEN ForFail("TypeError")
         ELSE IF cl[3] \notin DOMAIN dm THEN ForFail("KeyError")
         ELSE IF ~Iterable(dm[cl[3]]) THEN ForFail("TypeError")
         ELSE [exc |-> "", elem_name |-> cl[1], present |-> cl[1] \in DOMAIN dm,
               old |-> IF cl[1] \in DOMAIN dm THEN dm[cl[1]] ELSE PNone,
               elems |-> Elements(dm[cl[3]]), loop |-> params[2]])

\* One turn of the for handler's loop: bind the loop variable, evaluate the body
ForBody(f, elem, dm) == eval_(f.loop, DictSet(dm, f.elem_name, elem))

\* The for handler after its loop: the loop variable's binding is put back,
\* or deleted when there was none
ForExit(f, result, dm) ==
    IF f.present THEN ERet(PStr(Concat(result)), DictSet(dm, f.elem_name, f.old))
    ELSE IF f.elem_name \notin DOMAIN dm THEN ERaise("KeyError", dm)
    ELSE ERet(PStr(Concat(result)), DictDel(dm, f.elem_name))

\* The for handler's loop from the k-th element on
ForLoop(f, k, result, dm) ==
    IF k > Len(f.elems) THEN ForExit(f, result, dm)
    ELSE With(ForBody(f, f.elems[k], dm), LAMBDA r :
         IF r.exc # "" THEN r
         ELSE ForLoop(f, k + 1, Append(result, r.val.v), r.dm))

eval_for_statement(params, dm) ==
    With(ForEnter(params, dm), LAMBDA f :
    IF f.exc # "" THEN ERaise(f.exc, dm) ELSE ForLoop(f, 1, <<>>, dm))

eval_extends_statement(params, dm) ==
    IF Len(params) = 0 THEN ERaise("IndexError", dm) ELSE ERet(PStr(<<>>), dm)

\* _GLOBAL_ENV['statements']['len']: lambda x, data_model: len(x)
LenStatement(params, dm) ==
    IF Len(params) # 1 THEN ERaise("TypeError", dm)
    ELSE IF ~Iterable(params[1]) THEN ERaise("TypeError", dm)
    ELSE ERet(PInt(Len(params[1].v)), dm)

\* eval_statement's first step: every element of the statement that is not a
\* list and is a key of the data model is replaced by its value
SubstituteStmt(elem, dm) == IF elem.t # "list" THEN Lookup(elem, dm) ELSE elem

\* eval_statement's second step: the handler of sub[0] is called with sub[1:]
Dispatch(sub, dm) ==
    IF Len(sub) = 0 THEN ERaise("IndexError", dm)
    ELSE IF ~Hashable(sub[1]) THEN ERaise("TypeError", dm)
    ELSE IF sub[1].t # "str" \/ sub[1].v \notin Statements THEN ERaise("KeyError", dm)
    ELSE IF sub[1].v = W_len THEN LenStatement(Tail(sub), dm)
    ELSE IF sub[1].v = W_if THEN eval_if_statement(Tail(sub), dm)
    ELSE IF sub[1].v = W_for THEN eval_for_statement(Tail(sub), dm)
    ELSE eval_extends_statement(Tail(sub), dm)

eval_statement(stmt, dm) ==
    With(Elements(stmt), LAMBDA es :
    IF \E k \in 1..Len(es) : es[k].t # "list" /\ ~Hashable(es[k])
    THEN ERaise("TypeError", dm)
    ELSE Dispatch([k \in 1..Len(es) |-> SubstituteStmt(es[k], dm)], dm))

\* A str or int branch of eval_ that looks the element up in the data model
EvalLiteral_Lookup(elem, dm) == ERet(Lookup(elem, dm), dm)

\* eval_'s branch for a str or an int: the element as it is
EvalLiteral(elem, dm) == ERet(elem, dm)

\* eval_'s branch for a tuple that is not a statement: str(eval_expression(...))
EvalExpr(elem, dm) ==
    With(eval_expression(elem, dm), LAMBDA r :
    IF r.exc # "" THEN ERaise(r.exc, dm) ELSE ERet(PStr(PyStr(r.val)), dm))

\* The body of eval_'s loop for one element
EvalElem(elem, dm) ==
    IF elem.t = "list" THEN eval_(elem, dm)
    ELSE IF elem.t \in {"str", "int"} THEN EvalLiteral(elem, dm)
    ELSE IF elem.t = "tuple"
    THEN IF Len(elem.v) = 0 THEN ERaise("IndexError", dm)
         ELSE IF ~Hashable(elem.v[1]) THEN ERaise("TypeError", dm)
         ELSE IF is_parsed_token_a_statement(elem) THEN eval_statement(elem, dm)
         ELSE EvalExpr(elem, dm)
    ELSE ERaise("Exception", dm)

\* eval_'s loop from the k-th element on, then the final "".join(evaluated)
EvalLoop(es, k, evaluated, dm) ==
    IF k > Len(es)
    THEN IF \E j \in 1..Len(evaluated) : evaluated[j].t # "str" THEN ERaise("TypeError", dm)
         ELSE ERet(PStr(Concat([j \in 1..Len(evaluated) |-> evaluated[j].v])), dm)
    ELSE With(EvalElem(es[k], dm), LAMBDA r :
         IF r.exc # "" THEN r
         ELSE EvalLoop(es, k + 1, Append(evaluated, r.val), r.dm))

\* eval_(parsed_template, data_model) for a data_model that is a dict
eval_(nodes, dm) ==
    IF ~Iterable(nodes) THEN ERaise("TypeError", dm)
    ELSE EvalLoop(Elements(nodes), 1, <<>>, dm)

-----------------------------------------------------------------------------
(* The inputs *)

\* The longest template drawn from TemplateAlphabet
MaxTemplateLen == 4
\* How often one Template object is rendered
MaxRenders == 3

TemplateAlphabet == {"{", "}", "%", "a"}

RECURSIVE StringsUpTo(_, _)
\* Every string over alphabet of length at most n
StringsUpTo(alphabet, n) ==
    IF n = 0 THEN {<<>>}
    ELSE LET shorter == StringsUpTo(alphabet, n - 1)
         IN  shorter \cup {Append(w, c) : w \in shorter, c \in alphabet}

W_a      == <<"a">>
W_b      == <<"b">>
W_x      == <<"x">>
W_xs     == <<"x", "s">>
W_within == <<"w", "i", "t", "h", "i", "n">>

\* "{% w1 w2 ... %}" and "{{ w1 w2 ... }}"
StmtMarker(words) == STATEMENT_START \o <<" ">> \o JoinWith(<<" ">>, words) \o <<" ">> \o STATEMENT_END
ExprMarker(words) == EXPRESSION_START \o <<" ">> \o JoinWith(<<" ">>, words) \o <<" ">> \o EXPRESSION_END

M_if_a   == StmtMarker(<<W_if, W_a>>)
M_else   == StmtMarker(<<W_else>>)
M_endif  == StmtMarker(<<W_endif>>)
M_endfor == StmtMarker(<<W_endfor>>)
M_for_ok == StmtMarker(<<W_for, W_x, W_in, W_xs>>)
\* two for clauses that are not "<name> in <name>"
M_for_within == StmtMarker(<<W_for, W_x, W_within, W_xs>>)
M_for_short  == StmtMarker(<<W_for, W_x, W_xs>>)

SampleTemplates == {
    <<"H", "i", " ">> \o ExprMarker(<<W_a>>) \o <<"!">>,
    ExprMarker(<<W_a>>) \o <<" ">> \o EXPRESSION_START \o <<" ", "b">>,
    EXPRESSION_START \o <<" ", "a", "\n", " ">> \o EXPRESSION_END,
    <<"x", "s">>,
    M_if_a \o <<"b">> \o M_else \o <<"c">> \o M_endif,
    M_if_a \o <<"b">> \o M_endif,
    M_for_ok \o ExprMarker(<<W_x>>) \o <<",">> \o M_endfor,
    M_for_ok \o <<"b">> \o M_endfor,
    M_for_within \o <<"b">> \o M_endfor,
    M_for_short \o <<"b">> \o M_endfor,
    M_for_within \o <<"b">>,
    M_if_a \o <<"q">> \o M_for_within \o <<"b">> \o M_endfor \o M_else \o M_endif,
    M_if_a \o <<"q">> \o M_for_ok \o <<"b">> \o M_endfor \o M_else \o M_endif,
    M_if_a \o M_else \o <<"q">> \o M_for_short \o <<"b">> \o M_endfor \o M_endif,
    StmtMarker(<<W_extends, W_b>>) \o <<"H", "i">>
}

Templates == StringsUpTo(TemplateAlphabet, MaxTemplateLen) \cup SampleTemplates

\* {}
EmptyDict == [k \in {} |-> PNone]

\* The data models a caller passes to render
RenderDataModels == {
    EmptyDict,
    (PStr(W_a) :> PInt(1)) @@ (PStr(W_xs) :> PList(<<PInt(1), PInt(2)>>)) @@ (PStr(W_b) :> PStr(<<"B">>)),
    (PStr(W_a) :> PInt(0)) @@ (PStr(W_xs) :> PList(<<>>)) @@ (PStr(W_x) :> PStr(<<"X">>))
}

NoCall  == [fn |-> "", args |-> <<>>, dm |-> EmptyDict, status |-> ""]
NoFrame == [elem_name |-> PNone, present |-> FALSE, old |-> PNone, elems |-> <<>>,
            loop |-> PNone, k |-> 0, result |-> <<>>]

-----------------------------------------------------------------------------
(* The Template class *)

\* Template.__init__ has run: the text is read, nothing is parsed yet
Init ==
    /\ template \in Templates
    /\ parsed_template = PNone
    /\ tokenized = Ret(<<>>)
    /\ data_model \in RenderDataModels
    /\ out = Ret(PNone)
    /\ n_tokenize = 0
    /\ n_parse = 0
    /\ n_render = 0
    /\ tokens = <<>>
    /\ index = 0
    /\ parsed = <<>>
    /\ pc = "idle"
    /\ frame = NoFrame
    /\ call = NoCall

\* What a render call leaves behind: the token list, the parsed_template field,
\* whether parse was called, the stage reached, and the outcome ev
Rendered(toks, ast, parsed_now, stage, ev) ==
    [tokenized |-> toks, parsed_template |-> ast, parsed_now |-> parsed_now,
     stage |-> stage, ev |-> ev]

\* Template.render(data_model) as a function of the object's fields
render(text, cached, dm) ==
    With(tokenize(text), LAMBDA toks :
    IF toks.exc # "" THEN Rendered(toks, cached, FALSE, "tokenize", ERaise(toks.exc, dm))
    ELSE IF cached # PNone THEN Rendered(toks, cached, FALSE, "eval", eval_(cached, dm))
    ELSE With(parse(toks.val), LAMBDA p :
         IF p.exc # "" THEN Rendered(toks, cached, TRUE, "parse", ERaise(p.exc, dm))
         ELSE Rendered(toks, p.val, TRUE, "eval", eval_(p.val, dm))))

\* The caller renders the template with its dict
Render ==
    /\ n_render < MaxRenders
    /\ \E r \in {render(template, parsed_template, data_model)} :
          /\ tokenized' = r.tokenized
          /\ parsed_template' = r.parsed_template
          /\ n_tokenize' = n_tokenize + 1
          /\ n_parse' = IF r.parsed_now THEN n_parse + 1 ELSE n_parse
          /\ out' = [exc |-> r.ev.exc, val |-> r.ev.val]
          /\ data_model' = r.ev.dm
          /\ call' = [fn |-> "render", args |-> <<>>, dm |-> data_model,
                      status |-> IF r.ev.exc = "" THEN "returned" ELSE r.stage]
    /\ n_render' = n_render + 1
    /\ UNCHANGED <<template, tokens, index, parsed, pc, frame>>

\* The caller puts other values in its dict between two render calls
SetData ==
    /\ n_render < MaxRenders
    /\ \E dm \in RenderDataModels :
          /\ dm # data_model
          /\ data_model' = dm
    /\ UNCHANGED <<template, parsed_template, tokenized, out, n_tokenize, n_parse,
                   n_render, tokens, index, parsed, pc, frame, call>>

Next == Render \/ SetData

Spec == Init /\ [][Next]_vars
-----------------------------------------------------------------------------
(* parse and the block matchers, called on token lists *)

\* The longest list of if / else / endif markers handed to parse and the matchers
MaxTokens == 6
\* parse's loop is followed until its accumulator holds this many nodes
MaxNodes == 8

MarkerAlphabet == {M_if_a, M_else, M_endif}

\* The token lists: every list of markers up to MaxTokens, and the token lists
\* of the sample templates
TokenLists ==
    StringsUpTo(MarkerAlphabet, MaxTokens) \cup {tokenize(t).val : t \in SampleTemplates}

InitParse ==
    /\ tokens \in TokenLists
    /\ index = 0
    /\ parsed = <<>>
    /\ pc = "idle"
    /\ out = Ret(PNone)
    /\ call = NoCall
    /\ template = <<>>
    /\ parsed_template = PNone
    /\ tokenized = Ret(<<>>)
    /\ data_model = EmptyDict
    /\ n_tokenize = 0
    /\ n_parse = 0
    /\ n_render = 0
    /\ frame = NoFrame

\* find_next_else(tokens, ix) is called and returns or raises
CallFindNextElse ==
    /\ pc = "idle"
    /\ \E ix \in 0..Len(tokens) :
          /\ out' = find_next_else(tokens, ix)
          /\ call' = [fn |-> "find_next_else", args |-> <<ix>>, dm |-> EmptyDict,
                      status |-> "called"]
    /\ pc' = IF out'.exc = "" THEN "returned" ELSE "raised"
    /\ UNCHANGED <<template, parsed_template, tokenized, data_model, n_tokenize, n_parse,
                   n_render, tokens, index, parsed, frame>>

\* find_next_endif(tokens, ix) is called and returns or raises
CallFindNextEndif ==
    /\ pc = "idle"
    /\ \E ix \in 0..Len(tokens) :
          /\ out' = find_next_endif(tokens, ix)
          /\ call' = [fn |-> "find_next_endif", args |-> <<ix>>, dm |-> EmptyDict,
                      status |-> "called"]
    /\ pc' = IF out'.exc = "" THEN "returned" ELSE "raised"
    /\ UNCHANGED <<template, parsed_template, tokenized, data_model, n_tokenize, n_parse,
                   n_render, tokens, index, parsed, frame>>

\* parse(tokens) is called: an empty list is returned at once, otherwise the
\* cursor is put on the first token
ParseCall ==
    /\ pc = "idle"
    /\ index' = 0
    /\ parsed' = <<>>
    /\ pc' = IF Len(tokens) = 0 THEN "returned" ELSE "loop"
    /\ out' = IF Len(tokens) = 0 THEN Ret(PList(<<>>)) ELSE Ret(PNone)
    /\ call' = [fn |-> "parse", args |-> <<>>, dm |-> EmptyDict, status |-> "running"]
    /\ UNCHANGED <<template, parsed_template, tokenized, data_model, n_tokenize, n_parse,
                   n_render, tokens, frame>>

\* One turn of parse's while loop: the token under the cursor is parsed (with
\* the whole block it opens), its node appended and the cursor moved. call.args
\* keeps the cursor the turn started from.
ParseStep ==
    /\ pc = "loop"
    /\ index < Len(tokens)
    /\ Len(parsed) < MaxNodes
    /\ \E step \in {ParseToken(tokens, index)} :
          IF step.exc # ""
          THEN /\ pc' = "raised"
               /\ out' = Raise(step.exc)
               /\ UNCHANGED <<index, parsed>>
          ELSE /\ parsed' = Append(parsed, step.node)
               /\ index' = step.index
               /\ UNCHANGED <<pc, out>>
    /\ call' = [fn |-> "parse", args |-> <<index>>, dm |-> EmptyDict, status |-> "running"]
    /\ UNCHANGED <<template, parsed_template, tokenized, data_model, n_tokenize, n_parse,
                   n_render, tokens, frame>>

\* The cursor has left the token list: parse returns its accumulator
ParseReturn ==
    /\ pc = "loop"
    /\ index >= Len(tokens)
    /\ pc' = "returned"
    /\ out' = Ret(PList(parsed))
    /\ call' = [call EXCEPT !.status = "returned"]
    /\ UNCHANGED <<template, parsed_template, tokenized, data_model, n_tokenize, n_parse,
                   n_render, tokens, index, parsed, frame>>

NextParse == CallFindNextElse \/ CallFindNextEndif \/ ParseCall \/ ParseStep \/ ParseReturn

SpecParse == InitParse /\ [][NextParse]_vars
-----------------------------------------------------------------------------
(* eval_ and the for handler, called on parsed templates *)

\* The longest list a data model binds xs to
MaxElems == 2

W_old  == <<"o", "l", "d">>
W_name == <<"n", "a", "m", "e">>
W_Eva  == <<"E", "v", "a">>
W_f    == <<"f">>

\* The nodes parse produces: text, an expression, an if node, a for node, a
\* statement
TextNodes == {PStr(W_old), PStr(W_b)}
ExprNode  == PTuple(<<PStr(W_name)>>)
IfNode    == PTuple(<<PStr(W_if), PTuple(<<PStr(W_a)>>), PStr(<<"y">>), PStr(<<"n">>)>>)
ForNode   == PTuple(<<PStr(W_for), PList(<<PStr(W_x), PStr(W_in), PStr(W_xs)>>),
                      PTuple(<<PStr(W_x)>>)>>)
StmtNode  == PTuple(<<PStr(W_extends), PTuple(<<PStr(W_b)>>)>>)
\* an expression that raises TypeError unless x is bound to a number
SumNode   == PTuple(<<PStr(W_x), PStr(<<"+">>), PInt(1)>>)
Nodes     == TextNodes \cup {ExprNode, IfNode, ForNode, StmtNode, SumNode}

\* A branch as parse stores it: the single child itself, or a list
Branches == Nodes \cup {PList(<<n>>) : n \in Nodes}
                  \cup {PList(<<PStr(<<"q">>), n>>) : n \in {ExprNode, ForNode}}

\* The loop variables of the for nodes: x may be bound before the loop, f never is
LoopVars == {W_x, W_f}

IfWith(conseq, alt) == PTuple(<<PStr(W_if), PTuple(<<PStr(W_a)>>), conseq, alt>>)
ForWith(v, body)    == PTuple(<<PStr(W_for), PList(<<PStr(v), PStr(W_in), PStr(W_xs)>>), body>>)

\* The parsed templates handed to eval_: one if or for statement
Asts ==
    {PList(<<IfWith(br, PStr(<<>>))>>) : br \in Branches}
    \cup {PList(<<IfWith(PStr(<<>>), br)>>) : br \in Branches}
    \cup {PList(<<IfWith(c, a)>>) : c \in TextNodes, a \in TextNodes}
    \cup {PList(<<ForWith(v, br)>>) : v \in LoopVars, br \in Branches}
    \cup {PList(<<PTuple(<<PStr(W_for), PList(<<PStr(W_x), PStr(W_within), PStr(W_xs)>>),
                           PStr(W_b)>>)>>)}

\* The caller's dicts: a is 0 or 1, xs a list of up to MaxElems numbers, x and
\* old and name bound or not
EvalDataModels ==
    {   (PStr(W_a) :> PInt(a)) @@ (PStr(W_xs) :> PList(xs))
        @@ (IF bx THEN (PStr(W_x) :> PStr(<<"X">>)) ELSE EmptyDict)
        @@ (IF bo THEN (PStr(W_old) :> PStr(W_Eva)) @@ (PStr(W_name) :> PStr(W_Eva))
            ELSE EmptyDict)
      : a \in {0, 1},
        xs \in {[k \in 1..Len(l) |-> PInt(l[k])] : l \in StringsUpTo({1, 2}, MaxElems)},
        bx \in BOOLEAN, bo \in BOOLEAN }

InitEval ==
    /\ parsed_template \in Asts
    /\ data_model \in EvalDataModels
    /\ pc = "idle"
    /\ out = Ret(PNone)
    /\ frame = NoFrame
    /\ call = NoCall
    /\ template = <<>>
    /\ tokenized = Ret(<<>>)
    /\ n_tokenize = 0
    /\ n_parse = 0
    /\ n_render = 0
    /\ tokens = <<>>
    /\ index = 0
    /\ parsed = <<>>

\* eval_(parsed_template, data_model) is called and returns or raises
Eval ==
    /\ pc = "idle"
    /\ \E r \in {eval_(parsed_template, data_model)} :
          /\ out' = [exc |-> r.exc, val |-> r.val]
          /\ data_model' = r.dm
          /\ pc' = IF r.exc = "" THEN "returned" ELSE "raised"
    /\ call' = [fn |-> "eval_", args |-> <<>>, dm |-> data_model, status |-> "called"]
    /\ UNCHANGED <<template, parsed_template, tokenized, n_tokenize, n_parse, n_render,
                   tokens, index, parsed, frame>>

\* What eval_statement passes to the handler of the statement stmt
HandlerParams(stmt, dm) ==
    Tail([k \in 1..Len(stmt.v) |-> SubstituteStmt(stmt.v[k], dm)])

\* eval_statement gets as far as calling the handler named w: the lookups of
\* its first step raise nothing and the statement's name is still w after them
CallsHandler(stmt, dm, w) ==
    /\ \A k \in 1..Len(stmt.v) : stmt.v[k].t = "list" \/ Hashable(stmt.v[k])
    /\ SubstituteStmt(stmt.v[1], dm) = PStr(w)

\* eval_statement calls the for handler with the statement's parameters: the
\* clause is checked, the old binding of the loop variable remembered
ForCall ==
    /\ pc = "idle"
    /\ CallsHandler(parsed_template.v[1], data_model, W_for)
    /\ \E f \in {ForEnter(HandlerParams(parsed_template.v[1], data_model), data_model)} :
          IF f.exc # ""
          THEN /\ pc' = "for_raised"
               /\ out' = Raise(f.exc)
               /\ frame' = NoFrame
          ELSE /\ pc' = "for_loop"
               /\ out' = out
               /\ frame' = [elem_name |-> f.elem_name, present |-> f.present, old |-> f.old,
                            elems |-> f.elems, loop |-> f.loop, k |-> 1, result |-> <<>>]
    /\ call' = [fn |-> "eval_for_statement", args |-> <<>>, dm |-> data_model,
                status |-> "running"]
    /\ UNCHANGED <<template, parsed_template, tokenized, data_model, n_tokenize, n_parse,
                   n_render, tokens, index, parsed>>

\* The loop takes its next element: data_model[elem_name] = elem
ForBind ==
    /\ pc = "for_loop"
    /\ frame.k <= Len(frame.elems)
    /\ data_model' = DictSet(data_model, frame.elem_name, frame.elems[frame.k])
    /\ pc' = "for_body"
    /\ UNCHANGED <<template, parsed_template, tokenized, out, n_tokenize, n_parse, n_render,
                   tokens, index, parsed, frame, call>>

\* result.append(eval_(loop, data_model))
ForEvalBody ==
    /\ pc = "for_body"
    /\ \E r \in {eval_(frame.loop, data_model)} :
          /\ data_model' = r.dm
          /\ IF r.exc # ""
             THEN /\ pc' = "for_raised"
                  /\ out' = Raise(r.exc)
                  /\ frame' = frame
             ELSE /\ pc' = "for_loop"
                  /\ out' = out
                  /\ frame' = [frame EXCEPT !.k = @ + 1, !.result = Append(@, r.val.v)]
    /\ UNCHANGED <<template, parsed_template, tokenized, n_tokenize, n_parse, n_render,
                   tokens, index, parsed, call>>

\* The loop is over: the handler puts the loop variable's binding back, or
\* deletes it, and returns the joined result
ForReturn ==
    /\ pc = "for_loop"
    /\ frame.k > Len(frame.elems)
    /\ \E r \in {ForExit(frame, frame.result, data_model)} :
          /\ data_model' = r.dm
          /\ out' = [exc |-> r.exc, val |-> r.val]
          /\ call' = [call EXCEPT !.status = IF r.exc = "" THEN "returned" ELSE "raised"]
    /\ pc' = "for_exit"
    /\ UNCHANGED <<template, parsed_template, tokenized, n_tokenize, n_parse, n_render,
                   tokens, index, parsed, frame>>

NextEval == Eval \/ ForCall \/ ForBind \/ ForEvalBody \/ ForReturn

SpecEval == InitEval /\ [][NextEval]_vars
-----------------------------------------------------------------------------
(* What the claims speak of, said without the code's own scans *)

\* tok is a statement marker whose first word is w
IsMarker(tok, w) ==
    StartsWith(tok, STATEMENT_START) /\ Len(Split(tok)) >= 2 /\ Split(tok)[2] = w

\* How many of toks[lo..hi] (0-based, inclusive) are w markers
Count(toks, lo, hi, w) ==
    Cardinality({j \in lo..hi : j >= 0 /\ j < Len(toks) /\ IsMarker(toks[j + 1], w)})

\* The ifs opened and not yet closed in toks[i+1..k-1]
Depth(toks, i, k) == Count(toks, i + 1, k - 1, W_if) - Count(toks, i + 1, k - 1, W_endif)

\* The endifs that may close the if at i: none of the ifs after i is open there
ClosingEndifs(toks, i) ==
    {k \in (i + 1)..(Len(toks) - 1) : IsMarker(toks[k + 1], W_endif) /\ Depth(toks, i, k) = 0}

\* The endif of the if at i, or -1
OwnEndif(toks, i) ==
    IF ClosingEndifs(toks, i) = {} THEN -1
    ELSE CHOOSE k \in ClosingEndifs(toks, i) : \A j \in ClosingEndifs(toks, i) : k <= j

\* The elses of the if at i: before its endif, inside none of the ifs after i
OwnElses(toks, i) ==
    {k \in (i + 1)..(OwnEndif(toks, i) - 1) :
        IsMarker(toks[k + 1], W_else) /\ Depth(toks, i, k) = 0}

\* The else of the if at i, or -1
OwnElse(toks, i) ==
    IF OwnElses(toks, i) = {} THEN -1
    ELSE CHOOSE k \in OwnElses(toks, i) : \A j \in OwnElses(toks, i) : k <= j

\* toks is properly balanced: no endif without an if before it, every if
\* closed, every else inside an if, no if with two elses
Balanced(toks) ==
    /\ \A k \in 0..Len(toks) : Depth(toks, -1, k) >= 0
    /\ Depth(toks, -1, Len(toks)) = 0
    /\ \A k \in 0..(Len(toks) - 1) :
          /\ IsMarker(toks[k + 1], W_else) => Depth(toks, -1, k) >= 1
          /\ IsMarker(toks[k + 1], W_if) => Cardinality(OwnElses(toks, k)) <= 1

\* text holds no opening delimiter
NoDelimiters(text) ==
    ~\E i \in 0..(Len(text) - 2) :
        HasAt(text, i, EXPRESSION_START) \/ HasAt(text, i, STATEMENT_START)

\* The cursor a finished turn of parse's loop started from, or -1
TurnFrom == IF call.fn = "parse" /\ call.args # <<>> THEN call.args[1] ELSE -1

\* A matcher was called right after an if marker of the token list
CalledAfterIf(fn) ==
    /\ call.fn = fn
    /\ call.args[1] >= 1
    /\ IsMarker(tokens[call.args[1]], W_if)

-----------------------------------------------------------------------------
(* C1 *)

\* C1: once the loop of the for handler is over, the handler has returned and
\* the data model is what it was when the handler was called (a loop variable
\* bound before has its old value, one not bound before is absent), for every
\* sequence looped over, the empty one included; and while the body of a turn
\* is evaluated the loop variable is bound to the current element.
C1_ForRestoresDataModel ==
    /\ pc = "for_exit" => (call.status = "returned" /\ data_model = call.dm)
    /\ pc = "for_body" =>
          (/\ frame.elem_name \in DOMAIN data_model
           /\ data_model[frame.elem_name] = frame.elems[frame.k])

-----------------------------------------------------------------------------
(* C2 *)

\* C2: a turn of parse's loop that starts at an if marker with an endif and no
\* else of its own appends an if node whose consequent is the parse of the
\* tokens between the if and its endif and whose alternate is empty, and
\* leaves the cursor right after that endif.
C2_IfWithoutElse ==
    (/\ TurnFrom >= 0
     /\ IsMarker(tokens[TurnFrom + 1], W_if)
     /\ OwnEndif(tokens, TurnFrom) # -1
     /\ OwnElse(tokens, TurnFrom) = -1)
    => (/\ pc = "loop"
        /\ index = OwnEndif(tokens, TurnFrom) + 1
        /\ Len(parsed) > 0
        /\ parsed[Len(parsed)].t = "tuple"
        /\ Len(parsed[Len(parsed)].v) = 4
        /\ parsed[Len(parsed)].v[1] = PStr(W_if)
        /\ parsed[Len(parsed)].v[3] =
              unpack_len_one_list(
                  parse(Cut(tokens, TurnFrom + 1, OwnEndif(tokens, TurnFrom))).val)
        /\ parsed[Len(parsed)].v[4] = PStr(<<>>))

-----------------------------------------------------------------------------
(* C3 *)

\* C3: however often a template object is rendered, tokenize and parse run
\* during its first render only.
C3_LexedAndParsedOnce == n_tokenize <= 1 /\ n_parse <= 1

-----------------------------------------------------------------------------
(* C4 *)

\* C4: a template without opening delimiters renders to itself for every data
\* model, also when its text is a key of the data model.
C4_RendersToItself ==
    (n_render >= 1 /\ NoDelimiters(template)) => out = Ret(PStr(template))

\* A template without delimiters whose text is a key of the data model was rendered
C4_Witness ==
    /\ n_render >= 1
    /\ NoDelimiters(template)
    /\ PStr(template) \in DOMAIN call.dm
    /\ out = Ret(PStr(template))

-----------------------------------------------------------------------------
(* C5 *)

-----------------------------------------------------------------------------
(* C6 *)

\* The sample templates with a for marker whose clause is not "<name> in <name>":
\* the loop at the top, in the consequent and in the alternate of "if a"
MalformedTop == {M_for_within \o <<"b">> \o M_endfor, M_for_short \o <<"b">> \o M_endfor}
MalformedInConsequent ==
    {M_if_a \o <<"q">> \o M_for_within \o <<"b">> \o M_endfor \o M_else \o M_endif}
MalformedInAlternate ==
    {M_if_a \o M_else \o <<"q">> \o M_for_short \o <<"b">> \o M_endfor \o M_endif}
MalformedForTemplates == MalformedTop \cup MalformedInConsequent \cup MalformedInAlternate

\* The branch the loop of template text sits in is the one taken under dm
LoopReached(text, dm) ==
    \/ text \in MalformedTop
    \/ text \in MalformedInConsequent /\ Truthy(Lookup(PStr(W_a), dm))
    \/ text \in MalformedInAlternate /\ ~Truthy(Lookup(PStr(W_a), dm))

\* The words of a for marker after "for", as parse keeps them
ClauseOf(marker) ==
    PList([k \in 1..(Len(Split(marker)) - 3) |-> PStr(Split(marker)[k + 2])])

-----------------------------------------------------------------------------
(* C7 *)

\* C7: find_next_endif, started right after an if marker that has an endif of
\* its own, returns the index of that endif, whatever if blocks lie between.
C7_OwnEndif ==
    (CalledAfterIf("find_next_endif") /\ OwnEndif(tokens, call.args[1] - 1) # -1)
    => out = Ret(PInt(OwnEndif(tokens, call.args[1] - 1)))

\* find_next_endif was called on a balanced list, after an if with two complete
\* if blocks before its endif, one of them nested in the other or beside it
C7_Witness ==
    /\ CalledAfterIf("find_next_endif")
    /\ Balanced(tokens)
    /\ Count(tokens, call.args[1], OwnEndif(tokens, call.args[1] - 1), W_if) >= 2
    /\ out = Ret(PInt(OwnEndif(tokens, call.args[1] - 1)))

-----------------------------------------------------------------------------
(* C8 *)

\* C8: find_next_else, started right after an if marker of a properly balanced
\* token list, returns the index of that if's own else, and -1 when it has none.
C8_OwnElse ==
    (CalledAfterIf("find_next_else") /\ Balanced(tokens))
    => out = Ret(PInt(OwnElse(tokens, call.args[1] - 1)))

-----------------------------------------------------------------------------
(* C9 *)

\* b as a block: a list stays, a single child n becomes [n]
AsBlock(b) == IF b.t = "list" THEN b ELSE PList(<<b>>)

\* The statement with its branches (the elements after the condition or the
\* clause) stored as blocks
WithBlocks(stmt) ==
    PTuple([k \in 1..Len(stmt.v) |-> IF k >= 3 THEN AsBlock(stmt.v[k]) ELSE stmt.v[k]])

\* C9: a statement whose branches are stored as single unwrapped children
\* evaluates to what the same statement with each branch stored as a
\* one-element block evaluates to.
C9_BareAsBlock ==
    (pc \in {"returned", "raised"} /\ call.fn = "eval_")
    => \E r \in {eval_(PList(<<WithBlocks(parsed_template.v[1])>>), call.dm)} :
          out = [exc |-> r.exc, val |-> r.val]

-----------------------------------------------------------------------------
(* C10 *)

\* The branches of the evaluated statement are text, all of them
TextBranches ==
    \A k \in 3..Len(parsed_template.v[1].v) : parsed_template.v[1].v[k].t = "str"

\* C10: an if whose branches are text evaluates to one of the two texts, and a
\* for whose body is text to that text once per element, whatever the data
\* model binds.
C10_TextVerbatim ==
    (pc = "returned" /\ call.fn = "eval_" /\ TextBranches)
    => IF parsed_template.v[1].v[1] = PStr(W_if)
       THEN out.val \in {parsed_template.v[1].v[3], parsed_template.v[1].v[4]}
       ELSE \E n \in 0..MaxElems : out.val = PStr(Repeat(parsed_template.v[1].v[3].v, n))

-----------------------------------------------------------------------------
(* C11 *)

\* C11: parse's cursor only moves forward, so every turn of its loop leaves
\* the cursor after the token the turn started from and the accumulator never
\* holds more nodes than there are tokens; and a turn that starts at an if
\* marker with no endif of its own ends parse with an error.
C11_CursorForward ==
    /\ Len(parsed) <= Len(tokens)
    /\ (TurnFrom >= 0 /\ pc = "loop") => index > TurnFrom
    /\ (TurnFrom >= 0 /\ IsMarker(tokens[TurnFrom + 1], W_if)
                      /\ OwnEndif(tokens, TurnFrom) = -1) => pc = "raised"
====
